---- MODULE Spec2Model ----
(***************************************************************************)
(* Workload API client (workloadapi/client.go): the message translator,    *)
(* the one-shot fetch operations and the two watch loops                   *)
(* (WatchX509Context, WatchJWTBundles) that share the client's backoff.    *)
(***************************************************************************)
EXTENDS Integers, Sequences, FiniteSets, TLC

VARIABLES
    \* ---- watch sessions, one per element of Watches ----
    pc,         \* position of each Watch* call
    err,        \* the error last returned by watchX509Context / watchJWTBundles
    cancelled,  \* the caller-supplied ctx of the watch is done
    live,       \* number of stream calls of the watch whose ctx is not cancelled
    resp,       \* the message returned by the last stream.Recv()
    lastCb,     \* the last observer callback of the watch
    ret,        \* the error Watch* returned to its caller
    waitDur,    \* the argument of time.After in handleWatchError
    elapsed,    \* time elapsed since that time.After was armed
    backoff,    \* c.backoff, one per Client
    \* ---- history of the watch sessions ----
    own,        \* the wait a backoff advanced and reset by this watch alone would give
    errCbs,     \* calls of On*WatchError(err) in Watch* for the current err
    badOnStream,\* a message of the open stream failed to translate
    ctxDoneAtSelect, \* ctx was done when the select of handleWatchError returned nil
    lateOpen,   \* a stream open was invoked after such a select
    prevWait,   \* the wait the watch last completed, 0 since it last received a message
    msgCbs,     \* observer callbacks made for the message last received
    \* ---- one-shot fetch ----
    fOp, fPc, fResp, fResult, fLive, fOpens, fRecvs

watchVars == <<pc, err, cancelled, live, resp, lastCb, ret, waitDur, elapsed,
               backoff, own, errCbs, badOnStream, ctxDoneAtSelect, lateOpen,
               prevWait, msgCbs>>
fetchVars == <<fOp, fPc, fResp, fResult, fLive, fOpens, fRecvs>>
vars == <<watchVars, fetchVars>>

----------------------------------------------------------------------------
(* Bounds of the model *)

\* most identity entries (resp.Svids) in one X509SVIDResponse
MaxSvids == 2
\* most entries of a bundle map (resp.FederatedBundles, resp.Bundles)
MaxFed == 2

----------------------------------------------------------------------------
(* Outcomes of a Go call: a value, an error, or a run-time panic *)

Ok(v) == [kind |-> "ok", val |-> v, err |-> ""]
Err(e) == [kind |-> "err", val |-> <<>>, err |-> e]
Panic(e) == [kind |-> "panic", val |-> <<>>, err |-> e]

Min(a, b) == IF a <= b THEN a ELSE b

\* the orders in which a Go range statement may visit the keys K of a map
Orders(K) ==
    {s \in [1..Cardinality(K) -> K] : \A i, j \in DOMAIN s : i # j => s[i] # s[j]}

----------------------------------------------------------------------------
(* Wire messages *)

\* workload.X509SVID entries: well-formed ones, and ones with a single defect
GoodEntries ==
    [x509Svid : {"leaf1", "leaf2"}, x509SvidKey : {"key"},
     spiffeId : {"spiffe://td1/a", "spiffe://td2/a"}, bundle : {"ca1"}]
BadEntries ==
    { [x509Svid |-> "garbage", x509SvidKey |-> "key",
       spiffeId |-> "spiffe://td1/a", bundle |-> "ca1"],
      [x509Svid |-> "leaf1", x509SvidKey |-> "key",
       spiffeId |-> "bogus", bundle |-> "ca1"],
      [x509Svid |-> "leaf1", x509SvidKey |-> "key",
       spiffeId |-> "spiffe://td1/a", bundle |-> "empty"],
      [x509Svid |-> "leaf1", x509SvidKey |-> "key",
       spiffeId |-> "spiffe://td1/a", bundle |-> "garbage"] }
Entries == GoodEntries \cup BadEntries

FedKeys == {"td2", "td3", "bogus"}
FedBundles == {"ca2", "garbage"}
BundleMaps(keys, vals) ==
    UNION { [K -> vals] : K \in {S \in SUBSET keys : Cardinality(S) <= MaxFed} }

\* workload.X509SVIDResponse
X509Responses ==
    [svids : UNION { [1..n -> Entries] : n \in 0..MaxSvids },
     fed : BundleMaps(FedKeys, FedBundles)]

\* workload.JWTBundlesResponse
JWTKeys == {"td1", "td2", "bogus"}
JWTBundleBytes == {"jwks1", "garbage"}
JWTResponses == [bundles : BundleMaps(JWTKeys, JWTBundleBytes)]

----------------------------------------------------------------------------
(* Collaborators of the translator *)

\* x509svid.ParseRaw: the certificate chain and key of one entry
ParseRaw(cert, key) ==
    IF cert \in {"leaf1", "leaf2"} /\ key = "key"
    THEN Ok([cert |-> cert, key |-> key])
    ELSE Err("x509svid: cannot parse")

\* spiffeid.TrustDomainFromString: a trust domain name or a SPIFFE ID
TrustDomainFromString(s) ==
    CASE s \in {"td1", "spiffe://td1/a"} -> Ok("td1")
      [] s \in {"td2", "spiffe://td2/a"} -> Ok("td2")
      [] s = "td3" -> Ok("td3")
      [] OTHER -> Err("spiffeid: invalid trust domain")

\* x509.ParseCertificates
ParseCertificates(bytes) ==
    CASE bytes = "ca1" -> Ok(<<"CA1">>)
      [] bytes = "ca2" -> Ok(<<"CA2">>)
      [] bytes = "empty" -> Ok(<<>>)
      [] OTHER -> Err("x509: malformed certificate")

\* jwtbundle.Parse
JWTBundleParse(td, bytes) ==
    IF bytes = "jwks1" THEN Ok([td |-> td, keys |-> "JWKS1"])
    ELSE Err("jwtbundle: unable to parse JWKS")

\* x509bundle.NewSet / jwtbundle.NewSet: bundles keyed by trust domain, the
\* last bundle of a trust domain replacing an earlier one
NewSet(bundles) ==
    [td \in {bundles[i].td : i \in DOMAIN bundles} |->
        LET last == CHOOSE i \in DOMAIN bundles :
                        /\ bundles[i].td = td
                        /\ \A j \in DOMAIN bundles : bundles[j].td = td => j <= i
        IN bundles[last]]

----------------------------------------------------------------------------
(* The message translator *)

\* The body of the loop of parseX509SVIDs, from index i (0-based) on.
RECURSIVE ParseSVIDsFrom(_, _, _, _)
ParseSVIDsFrom(rsp, i, n, svids) ==
    IF i >= n
    THEN IF Len(svids) = 0 THEN Err("no SVIDs in response") ELSE Ok(svids)
    ELSE IF i + 1 > Len(rsp.svids)
    THEN Panic("index out of range")
    ELSE LET svid == rsp.svids[i + 1]
             s == ParseRaw(svid.x509Svid, svid.x509SvidKey)
         IN IF s.kind # "ok" THEN Err(s.err)
            ELSE ParseSVIDsFrom(rsp, i + 1, n, Append(svids, s.val))

\* a plausible bug: firstOnly is ignored and every entry is parsed
parseX509SVIDs_All(rsp, firstOnly) ==
    ParseSVIDsFrom(rsp, 0, Len(rsp.svids), <<>>)

parseX509SVIDs(rsp, firstOnly) ==
    LET n == IF firstOnly THEN 1 ELSE Len(rsp.svids)
    IN ParseSVIDsFrom(rsp, 0, n, <<>>)

parseX509Bundle(spiffeID, bundle) ==
    LET td == TrustDomainFromString(spiffeID)
        certs == ParseCertificates(bundle)
    IN IF td.kind # "ok" THEN Err(td.err)
       ELSE IF certs.kind # "ok" THEN Err(certs.err)
       ELSE IF Len(certs.val) = 0 THEN Err("empty X.509 bundle for trust domain")
       ELSE Ok([td |-> td.val, authorities |-> certs.val])

\* The two loops of parseX509Bundles visit these (id, bundle) pairs in turn:
\* the entries in message order, then the federated bundles in the order ord
\* the range over the map takes.
BundleInputs(rsp, ord) ==
    [i \in 1..Len(rsp.svids) |-> <<rsp.svids[i].spiffeId, rsp.svids[i].bundle>>]
    \o [i \in 1..Len(ord) |-> <<ord[i], rsp.fed[ord[i]]>>]

RECURSIVE ParseBundlesFrom(_, _, _)
ParseBundlesFrom(inputs, i, bundles) ==
    IF i > Len(inputs) THEN Ok(NewSet(bundles))
    ELSE LET b == parseX509Bundle(inputs[i][1], inputs[i][2])
         IN IF b.kind # "ok" THEN Err(b.err)
            ELSE ParseBundlesFrom(inputs, i + 1, Append(bundles, b.val))

\* a plausible bug: the federated bundles are left out
parseX509Bundles_NoFederated(rsp, ord) ==
    ParseBundlesFrom(BundleInputs(rsp, <<>>), 1, <<>>)

parseX509Bundles(rsp, ord) ==
    ParseBundlesFrom(BundleInputs(rsp, ord), 1, <<>>)

\* a plausible bug: a failure of the bundle half is dropped
parseX509Context_IgnoreBundleErr(rsp, ord) ==
    LET svids == parseX509SVIDs(rsp, FALSE)
        bundles == parseX509Bundles(rsp, ord)
    IN IF svids.kind # "ok" THEN svids
       ELSE Ok([SVIDs |-> svids.val,
                Bundles |-> IF bundles.kind = "ok" THEN bundles.val ELSE <<>>])

parseX509Context(rsp, ord) ==
    LET svids == parseX509SVIDs(rsp, FALSE)
        bundles == parseX509Bundles(rsp, ord)
    IN IF svids.kind # "ok" THEN svids
       ELSE IF bundles.kind # "ok" THEN bundles
       ELSE Ok([SVIDs |-> svids.val, Bundles |-> bundles.val])

RECURSIVE ParseJWTBundlesFrom(_, _, _, _)
ParseJWTBundlesFrom(rsp, ord, i, bundles) ==
    IF i > Len(ord) THEN Ok(NewSet(bundles))
    ELSE LET td == TrustDomainFromString(ord[i])
             b == JWTBundleParse(td.val, rsp.bundles[ord[i]])
         IN IF td.kind # "ok" THEN Err(td.err)
            ELSE IF b.kind # "ok" THEN Err(b.err)
            ELSE ParseJWTBundlesFrom(rsp, ord, i + 1, Append(bundles, b.val))

parseJWTSVIDBundles(rsp, ord) == ParseJWTBundlesFrom(rsp, ord, 1, <<>>)

----------------------------------------------------------------------------
(* Transport failures and their classification *)

\* the errors a stream open or a stream.Recv() returns (gRPC status errors)
TransportErrs == {"Canceled", "InvalidArgument", "Unavailable"}
\* ctx.Err() of a done context: a plain error, not a gRPC status
CtxErr == "context canceled"

\* status.Code(err): the code of a gRPC status error, Unknown for the rest
StatusCode(e) == IF e \in TransportErrs THEN e ELSE "Unknown"

\* what the transport gives a call whose ctx is (not) done
FailuresFor(done) == IF done THEN {"Canceled"} ELSE TransportErrs

----------------------------------------------------------------------------
(* The backoff policy of the client (backoff.go): the state is the wait the
   next Duration() call returns. Duration() and Reset() are each taken as one
   atomic step of the watch that calls them. *)

BackoffMin == 1
BackoffMax == 4

newBackoff == BackoffMin
BackoffDuration(b) == b
BackoffAdvance(b) == Min(2 * b, BackoffMax)
BackoffReset(b) == BackoffMin

----------------------------------------------------------------------------
(* One-shot fetches *)

FetchOps == {"FetchX509SVID", "FetchX509SVIDs", "FetchX509Bundles",
             "FetchX509Context", "FetchJWTBundles"}

\* the messages the stream of an operation carries
FetchResponses(op) == IF op = "FetchJWTBundles" THEN JWTResponses ELSE X509Responses
MapOf(op, rsp) == IF op = "FetchJWTBundles" THEN rsp.bundles ELSE rsp.fed

\* what each fetch returns for the message it received
FetchTranslate(op, rsp, ord) ==
    CASE op = "FetchX509SVID" ->
            LET svids == parseX509SVIDs(rsp, TRUE)
            IN IF svids.kind # "ok" THEN svids ELSE Ok(svids.val[1])
      [] op = "FetchX509SVIDs" -> parseX509SVIDs(rsp, FALSE)
      [] op = "FetchX509Bundles" -> parseX509Bundles(rsp, ord)
      [] op = "FetchX509Context" -> parseX509Context(rsp, ord)
      [] op = "FetchJWTBundles" -> parseJWTSVIDBundles(rsp, ord)

NoResp == [none |-> TRUE]
NoResult == [kind |-> "none", val |-> <<>>, err |-> ""]

FetchInit ==
    /\ fOp = "" /\ fPc = "idle" /\ fResp = NoResp /\ fResult = NoResult
    /\ fLive = 0 /\ fOpens = 0 /\ fRecvs = 0

\* the caller enters Fetch*: ctx, cancel := context.WithCancel(...)
FetchCall(op) ==
    /\ fPc = "idle"
    /\ fOp' = op /\ fPc' = "open" /\ fResp' = NoResp /\ fResult' = NoResult
    /\ fLive' = 1 /\ fOpens' = 0 /\ fRecvs' = 0
    /\ UNCHANGED watchVars

\* a plausible bug: a failed open is tried once more
FetchOpen_Retry ==
    /\ fPc = "open"
    /\ fOpens' = fOpens + 1
    /\ \/ /\ fPc' = "recv"
          /\ UNCHANGED <<fResult, fLive>>
       \/ /\ fOpens = 0
          /\ UNCHANGED <<fPc, fResult, fLive>>
       \/ \E e \in TransportErrs :
          /\ fOpens > 0
          /\ fResult' = Err(e) /\ fPc' = "returned" /\ fLive' = fLive - 1
    /\ UNCHANGED <<fOp, fResp, fRecvs, watchVars>>

\* c.wlClient.Fetch...(ctx, request)
FetchOpen ==
    /\ fPc = "open"
    /\ fOpens' = fOpens + 1
    /\ \/ /\ fPc' = "recv"
          /\ UNCHANGED <<fResult, fLive>>
       \/ \E e \in TransportErrs :
          /\ fResult' = Err(e) /\ fPc' = "returned" /\ fLive' = fLive - 1
    /\ UNCHANGED <<fOp, fResp, fRecvs, watchVars>>

\* a plausible bug: a fetch that receives its message resets the backoff of
\* the client, as a watch does
FetchRecvIn_ResetsBackoff(msgs) ==
    /\ fPc = "recv"
    /\ fRecvs' = fRecvs + 1
    /\ fPc' = "returned" /\ fLive' = fLive - 1
    /\ \/ \E m \in msgs : \E ord \in Orders(DOMAIN MapOf(fOp, m)) :
          /\ fResp' = m
          /\ fResult' = FetchTranslate(fOp, m, ord)
          /\ backoff' = BackoffReset(backoff)
       \/ \E e \in TransportErrs :
          /\ fResult' = Err(e)
          /\ UNCHANGED <<fResp, backoff>>
    /\ UNCHANGED <<fOp, fOpens>>
    /\ UNCHANGED <<pc, err, cancelled, live, resp, lastCb, ret, waitDur, elapsed,
                   own, errCbs, badOnStream, ctxDoneAtSelect, lateOpen,
                   prevWait, msgCbs>>

\* stream.Recv(), the translation of the message, and the return (defer
\* cancel()), for an agent that sends one of msgs
FetchRecvIn(msgs) ==
    /\ fPc = "recv"
    /\ fRecvs' = fRecvs + 1
    /\ fPc' = "returned" /\ fLive' = fLive - 1
    /\ \/ \E m \in msgs : \E ord \in Orders(DOMAIN MapOf(fOp, m)) :
          /\ fResp' = m
          /\ fResult' = FetchTranslate(fOp, m, ord)
       \/ \E e \in TransportErrs :
          /\ fResult' = Err(e)
          /\ UNCHANGED fResp
    /\ UNCHANGED <<fOp, fOpens, watchVars>>

FetchRecv == FetchRecvIn(FetchResponses(fOp))

\* the caller takes the result
FetchReturn ==
    /\ fPc = "returned"
    /\ fPc' = "idle"
    /\ UNCHANGED <<fOp, fResp, fResult, fLive, fOpens, fRecvs, watchVars>>

----------------------------------------------------------------------------
(* Unary calls: ValidateJWTSVID and FetchJWTSVID *)

Audiences == {"aud1", "aud2"}
\* a token: its encoding, a well-formed JWT or not, and the audience it names
Tokens == [form : {"jwt", "garbage"}, aud : Audiences]

\* jwtsvid.ParseInsecure(token, audience): the claims of a well-formed token
\* that names an expected audience; the signature is not verified
ParseInsecure(token, audience) ==
    IF token.form # "jwt" THEN Err("unable to parse JWT token")
    ELSE IF token.aud \notin audience THEN Err("expected audience")
    ELSE Ok([Audience |-> token.aud])

\* what the agent answers to ValidateJWTSVID: it accepts, or the call fails
ValidateReplies == {"accepted"} \cup TransportErrs

\* a plausible bug: the token is parsed whatever the agent answered
ValidateResult_IgnoreAgent(token, audience, reply) ==
    ParseInsecure(token, {audience})

\* the result of ValidateJWTSVID for the agent's answer
ValidateResult(token, audience, reply) ==
    IF reply # "accepted" THEN Err(reply)
    ELSE ParseInsecure(token, {audience})

\* the caller enters ValidateJWTSVID(ctx, token, audience)
ValidateCall(token, audience) ==
    /\ fPc = "idle"
    /\ fOp' = "ValidateJWTSVID" /\ fPc' = "validate"
    /\ fResp' = [token |-> token, audience |-> audience, reply |-> ""]
    /\ fResult' = NoResult
    /\ fLive' = 1 /\ fOpens' = 0 /\ fRecvs' = 0
    /\ UNCHANGED watchVars

\* c.wlClient.ValidateJWTSVID(ctx, request) returns, then the function does
\* (defer cancel())
ValidateReply ==
    /\ fPc = "validate"
    /\ \E reply \in ValidateReplies :
          /\ fResp' = [fResp EXCEPT !.reply = reply]
          /\ fResult' = ValidateResult(fResp.token, fResp.audience, reply)
    /\ fPc' = "returned" /\ fLive' = fLive - 1
    /\ UNCHANGED <<fOp, fOpens, fRecvs, watchVars>>

\* the answers of the agent to FetchJWTSVID: resp.Svids, or the call fails
JWTSVIDResponses == {<<>>} \cup {<<t>> : t \in Tokens}

\* the result of FetchJWTSVID for the response it got
FetchJWTSVIDResult(svids, audience) ==
    IF Len(svids) = 0 THEN Err("there were no SVIDs in the response")
    ELSE ParseInsecure(svids[1], {audience})

\* the caller enters FetchJWTSVID(ctx, params)
FetchJWTSVIDCall(audience) ==
    /\ fPc = "idle"
    /\ fOp' = "FetchJWTSVID" /\ fPc' = "unary"
    /\ fResp' = [audience |-> audience]
    /\ fResult' = NoResult
    /\ fLive' = 1 /\ fOpens' = 0 /\ fRecvs' = 0
    /\ UNCHANGED watchVars

\* c.wlClient.FetchJWTSVID(ctx, request) returns, then the function does
FetchJWTSVIDReply ==
    /\ fPc = "unary"
    /\ \/ \E svids \in JWTSVIDResponses :
             /\ fResp' = [audience |-> fResp.audience, jwtSvids |-> svids]
             /\ fResult' = FetchJWTSVIDResult(svids, fResp.audience)
       \/ \E e \in TransportErrs :
             /\ fResult' = Err(e)
             /\ UNCHANGED fResp
    /\ fPc' = "returned" /\ fLive' = fLive - 1
    /\ UNCHANGED <<fOp, fOpens, fRecvs, watchVars>>

----------------------------------------------------------------------------
(* Watch sessions *)

Watches == {"x509", "jwt"}

\* the messages the agent sends on a watch stream
WatchResponses(w) ==
    IF w = "x509"
    THEN {m \in X509Responses :
            /\ Len(m.svids) <= 1
            /\ DOMAIN m.fed \subseteq {"td3"}
            /\ \A i \in DOMAIN m.svids :
                  /\ m.svids[i].spiffeId = "spiffe://td1/a"
                  /\ m.svids[i].bundle # "empty"}
    ELSE {m \in JWTResponses : DOMAIN m.bundles \subseteq {"td1"}}

WatchMapOf(w, rsp) == IF w = "x509" THEN rsp.fed ELSE rsp.bundles

\* parseX509Context(resp) in watchX509Context, parseJWTSVIDBundles(resp) in
\* watchJWTBundles
WatchTranslate(w, rsp, ord) ==
    IF w = "x509" THEN parseX509Context(rsp, ord) ELSE parseJWTSVIDBundles(rsp, ord)

NoCb == [kind |-> "none", val |-> <<>>, err |-> ""]
UpdateCb(v) == [kind |-> "update", val |-> v, err |-> ""]
ErrorCb(e) == [kind |-> "error", val |-> <<>>, err |-> e]

WatchInit ==
    /\ pc = [w \in Watches |-> "call"]
    /\ err = [w \in Watches |-> ""]
    /\ cancelled = [w \in Watches |-> FALSE]
    /\ live = [w \in Watches |-> 0]
    /\ resp = [w \in Watches |-> NoResp]
    /\ lastCb = [w \in Watches |-> NoCb]
    /\ ret = [w \in Watches |-> ""]
    /\ waitDur = [w \in Watches |-> 0]
    /\ elapsed = [w \in Watches |-> 0]
    /\ backoff = newBackoff
    /\ own = [w \in Watches |-> newBackoff]
    /\ errCbs = [w \in Watches |-> 0]
    /\ badOnStream = [w \in Watches |-> FALSE]
    /\ ctxDoneAtSelect = [w \in Watches |-> FALSE]
    /\ lateOpen = [w \in Watches |-> FALSE]
    /\ prevWait = [w \in Watches |-> 0]
    /\ msgCbs = [w \in Watches |-> 0]

\* watchX509Context / watchJWTBundles up to the first Recv: the call's ctx is
\* made and the stream is opened; a failed open returns (defer cancel())
OpenStream(w) ==
    /\ pc[w] = "call"
    /\ lateOpen' = [lateOpen EXCEPT ![w] = @ \/ ctxDoneAtSelect[w]]
    /\ badOnStream' = [badOnStream EXCEPT ![w] = FALSE]
    /\ \/ /\ pc' = [pc EXCEPT ![w] = "recv"]
          /\ live' = [live EXCEPT ![w] = @ + 1]
          /\ UNCHANGED <<err, errCbs>>
       \/ \E e \in FailuresFor(cancelled[w]) :
          /\ pc' = [pc EXCEPT ![w] = "errcb"]
          /\ err' = [err EXCEPT ![w] = e]
          /\ errCbs' = [errCbs EXCEPT ![w] = 0]
          /\ UNCHANGED live
    /\ UNCHANGED <<cancelled, resp, lastCb, ret, waitDur, elapsed, backoff, own,
                   ctxDoneAtSelect, fetchVars>>
    /\ UNCHANGED <<prevWait, msgCbs>>

\* a plausible bug: the backoff is reset only for a message that translates
RecvMessage_ResetOnSuccess(w) ==
    /\ pc[w] = "recv"
    /\ ~cancelled[w]
    /\ \E m \in WatchResponses(w) :
          /\ resp' = [resp EXCEPT ![w] = m]
          /\ IF \E ord \in Orders(DOMAIN WatchMapOf(w, m)) :
                    WatchTranslate(w, m, ord).kind = "ok"
             THEN /\ backoff' = BackoffReset(backoff)
                  /\ own' = [own EXCEPT ![w] = BackoffReset(@)]
             ELSE UNCHANGED <<backoff, own>>
    /\ pc' = [pc EXCEPT ![w] = "deliver"]
    /\ UNCHANGED <<err, cancelled, live, lastCb, ret, waitDur, elapsed, errCbs,
                   badOnStream, ctxDoneAtSelect, lateOpen, fetchVars>>
    /\ prevWait' = [prevWait EXCEPT ![w] = 0]
    /\ msgCbs' = [msgCbs EXCEPT ![w] = 0]

\* stream.Recv() returns a message: c.backoff.Reset()
RecvMessage(w) ==
    /\ pc[w] = "recv"
    /\ ~cancelled[w]
    /\ \E m \in WatchResponses(w) : resp' = [resp EXCEPT ![w] = m]
    /\ backoff' = BackoffReset(backoff)
    /\ own' = [own EXCEPT ![w] = BackoffReset(@)]
    /\ pc' = [pc EXCEPT ![w] = "deliver"]
    /\ UNCHANGED <<err, cancelled, live, lastCb, ret, waitDur, elapsed, errCbs,
                   badOnStream, ctxDoneAtSelect, lateOpen,
                   fetchVars>>
    /\ prevWait' = [prevWait EXCEPT ![w] = 0]
    /\ msgCbs' = [msgCbs EXCEPT ![w] = 0]

\* a plausible bug: the receive loop reports the failure of Recv to the
\* observer itself, and Watch* reports it again
RecvError_ReportsInLoop(w) ==
    /\ pc[w] = "recv"
    /\ \E e \in FailuresFor(cancelled[w]) :
          /\ err' = [err EXCEPT ![w] = e]
          /\ lastCb' = [lastCb EXCEPT ![w] = ErrorCb(e)]
    /\ errCbs' = [errCbs EXCEPT ![w] = 1]
    /\ live' = [live EXCEPT ![w] = @ - 1]
    /\ pc' = [pc EXCEPT ![w] = "errcb"]
    /\ badOnStream' = [badOnStream EXCEPT ![w] = FALSE]
    /\ UNCHANGED <<cancelled, resp, ret, waitDur, elapsed, backoff, own,
                   ctxDoneAtSelect, lateOpen, fetchVars>>
    /\ UNCHANGED <<prevWait, msgCbs>>

\* a plausible bug: the receive loop returns the failure of Recv without
\* cancelling the call of its stream
RecvError_NoCancel(w) ==
    /\ pc[w] = "recv"
    /\ \E e \in FailuresFor(cancelled[w]) : err' = [err EXCEPT ![w] = e]
    /\ errCbs' = [errCbs EXCEPT ![w] = 0]
    /\ pc' = [pc EXCEPT ![w] = "errcb"]
    /\ badOnStream' = [badOnStream EXCEPT ![w] = FALSE]
    /\ UNCHANGED <<cancelled, live, resp, lastCb, ret, waitDur, elapsed, backoff,
                   own, ctxDoneAtSelect, lateOpen, fetchVars>>
    /\ UNCHANGED <<prevWait, msgCbs>>

\* stream.Recv() fails: the loop returns the error (defer cancel())
RecvError(w) ==
    /\ pc[w] = "recv"
    /\ \E e \in FailuresFor(cancelled[w]) : err' = [err EXCEPT ![w] = e]
    /\ errCbs' = [errCbs EXCEPT ![w] = 0]
    /\ live' = [live EXCEPT ![w] = @ - 1]
    /\ pc' = [pc EXCEPT ![w] = "errcb"]
    /\ badOnStream' = [badOnStream EXCEPT ![w] = FALSE]
    /\ UNCHANGED <<cancelled, resp, lastCb, ret, waitDur, elapsed, backoff, own,
                   ctxDoneAtSelect, lateOpen,
                   fetchVars>>
    /\ UNCHANGED <<prevWait, msgCbs>>

\* a plausible bug: a message that fails to translate ends the stream
Deliver_ReturnOnBad(w) ==
    /\ pc[w] = "deliver"
    /\ \E ord \in Orders(DOMAIN WatchMapOf(w, resp[w])) :
        LET r == WatchTranslate(w, resp[w], ord)
        IN IF r.kind = "ok"
           THEN /\ lastCb' = [lastCb EXCEPT ![w] = UpdateCb(r.val)]
                /\ pc' = [pc EXCEPT ![w] = "recv"]
                /\ UNCHANGED <<badOnStream, err, errCbs, live>>
           ELSE /\ lastCb' = [lastCb EXCEPT ![w] = ErrorCb(r.err)]
                /\ badOnStream' = [badOnStream EXCEPT ![w] = TRUE]
                /\ err' = [err EXCEPT ![w] = "Unavailable"]
                /\ errCbs' = [errCbs EXCEPT ![w] = 0]
                /\ live' = [live EXCEPT ![w] = @ - 1]
                /\ pc' = [pc EXCEPT ![w] = "errcb"]
    /\ resp' = [resp EXCEPT ![w] = NoResp]
    /\ UNCHANGED <<cancelled, ret, waitDur, elapsed, backoff, own,
                   ctxDoneAtSelect, lateOpen,
                   fetchVars>>
    /\ msgCbs' = [msgCbs EXCEPT ![w] = @ + 1]
    /\ UNCHANGED prevWait

\* a plausible bug: a message that fails to translate is dropped silently
Deliver_SilentOnBad(w) ==
    /\ pc[w] = "deliver"
    /\ \E ord \in Orders(DOMAIN WatchMapOf(w, resp[w])) :
        LET r == WatchTranslate(w, resp[w], ord)
        IN IF r.kind = "ok"
           THEN /\ lastCb' = [lastCb EXCEPT ![w] = UpdateCb(r.val)]
                /\ msgCbs' = [msgCbs EXCEPT ![w] = @ + 1]
                /\ UNCHANGED badOnStream
           ELSE /\ badOnStream' = [badOnStream EXCEPT ![w] = TRUE]
                /\ UNCHANGED <<lastCb, msgCbs>>
    /\ pc' = [pc EXCEPT ![w] = "recv"]
    /\ resp' = [resp EXCEPT ![w] = NoResp]
    /\ UNCHANGED <<err, cancelled, live, ret, waitDur, elapsed, backoff,
                   own, errCbs, ctxDoneAtSelect, lateOpen, fetchVars>>
    /\ UNCHANGED prevWait

\* the message is translated and the observer is called with the result; the
\* loop goes on to the next Recv either way
Deliver(w) ==
    /\ pc[w] = "deliver"
    /\ \E ord \in Orders(DOMAIN WatchMapOf(w, resp[w])) :
        LET r == WatchTranslate(w, resp[w], ord)
        IN IF r.kind = "ok"
           THEN /\ lastCb' = [lastCb EXCEPT ![w] = UpdateCb(r.val)]
                /\ UNCHANGED badOnStream
           ELSE /\ lastCb' = [lastCb EXCEPT ![w] = ErrorCb(r.err)]
                /\ badOnStream' = [badOnStream EXCEPT ![w] = TRUE]
    /\ pc' = [pc EXCEPT ![w] = "recv"]
    /\ resp' = [resp EXCEPT ![w] = NoResp]
    /\ UNCHANGED <<err, cancelled, live, ret, waitDur, elapsed, backoff,
                   own, errCbs, ctxDoneAtSelect, lateOpen,
                   fetchVars>>
    /\ msgCbs' = [msgCbs EXCEPT ![w] = @ + 1]
    /\ UNCHANGED prevWait

\* a plausible bug: the observer is not told of an error that ends the watch
WatchErrorCb_SkipTerminal(w) ==
    /\ pc[w] = "errcb"
    /\ IF err[w] \in {"Canceled", "InvalidArgument"}
       THEN UNCHANGED <<lastCb, errCbs>>
       ELSE /\ lastCb' = [lastCb EXCEPT ![w] = [kind |-> "error", val |-> <<>>, err |-> err[w]]]
            /\ errCbs' = [errCbs EXCEPT ![w] = @ + 1]
    /\ pc' = [pc EXCEPT ![w] = "handle"]
    /\ UNCHANGED <<err, cancelled, live, resp, ret, waitDur, elapsed, backoff,
                   own, badOnStream, ctxDoneAtSelect, lateOpen, fetchVars>>
    /\ UNCHANGED <<prevWait, msgCbs>>

\* watcher.OnX509ContextWatchError(err) / watcher.OnJWTBundlesWatchError(err)
\* in the loop of Watch*
WatchErrorCb(w) ==
    /\ pc[w] = "errcb"
    /\ lastCb' = [lastCb EXCEPT ![w] = ErrorCb(err[w])]
    /\ errCbs' = [errCbs EXCEPT ![w] = @ + 1]
    /\ pc' = [pc EXCEPT ![w] = "handle"]
    /\ UNCHANGED <<err, cancelled, live, resp, ret, waitDur, elapsed, backoff,
                   own, badOnStream, ctxDoneAtSelect, lateOpen,
                   fetchVars>>
    /\ UNCHANGED <<prevWait, msgCbs>>

\* a plausible bug: a transient error is retried at once, with no wait
HandleWatchError_NoWait(w) ==
    /\ pc[w] = "handle"
    /\ IF StatusCode(err[w]) \in {"Canceled", "InvalidArgument"}
       THEN /\ ret' = [ret EXCEPT ![w] = err[w]]
            /\ pc' = [pc EXCEPT ![w] = "done"]
            /\ UNCHANGED <<err, backoff, own>>
       ELSE /\ backoff' = BackoffAdvance(backoff)
            /\ own' = [own EXCEPT ![w] = BackoffAdvance(@)]
            /\ err' = [err EXCEPT ![w] = ""]
            /\ pc' = [pc EXCEPT ![w] = "call"]
            /\ UNCHANGED ret
    /\ UNCHANGED <<cancelled, live, resp, lastCb, waitDur, elapsed, errCbs,
                   badOnStream, ctxDoneAtSelect, lateOpen, fetchVars>>
    /\ UNCHANGED <<prevWait, msgCbs>>

\* a plausible bug: only a cancelled error ends the watch
HandleWatchError_RetryInvalid(w) ==
    /\ pc[w] = "handle"
    /\ IF StatusCode(err[w]) = "Canceled"
       THEN /\ ret' = [ret EXCEPT ![w] = err[w]]
            /\ pc' = [pc EXCEPT ![w] = "done"]
            /\ UNCHANGED <<waitDur, elapsed, backoff, own>>
       ELSE /\ waitDur' = [waitDur EXCEPT ![w] = BackoffDuration(backoff)]
            /\ backoff' = BackoffAdvance(backoff)
            /\ own' = [own EXCEPT ![w] = BackoffAdvance(@)]
            /\ elapsed' = [elapsed EXCEPT ![w] = 0]
            /\ pc' = [pc EXCEPT ![w] = "wait"]
            /\ UNCHANGED ret
    /\ UNCHANGED <<err, cancelled, live, resp, lastCb, errCbs, badOnStream,
                   ctxDoneAtSelect, lateOpen, fetchVars>>
    /\ UNCHANGED <<prevWait, msgCbs>>

\* a plausible bug: the watch gives up once the backoff has reached its maximum
HandleWatchError_GiveUpAtMax(w) ==
    /\ pc[w] = "handle"
    /\ IF StatusCode(err[w]) \in {"Canceled", "InvalidArgument"}
             \/ backoff = BackoffMax
       THEN /\ ret' = [ret EXCEPT ![w] = err[w]]
            /\ pc' = [pc EXCEPT ![w] = "done"]
            /\ UNCHANGED <<waitDur, elapsed, backoff, own>>
       ELSE /\ waitDur' = [waitDur EXCEPT ![w] = BackoffDuration(backoff)]
            /\ backoff' = BackoffAdvance(backoff)
            /\ own' = [own EXCEPT ![w] = BackoffAdvance(@)]
            /\ elapsed' = [elapsed EXCEPT ![w] = 0]
            /\ pc' = [pc EXCEPT ![w] = "wait"]
            /\ UNCHANGED ret
    /\ UNCHANGED <<err, cancelled, live, resp, lastCb, errCbs, badOnStream,
                   ctxDoneAtSelect, lateOpen, fetchVars>>
    /\ UNCHANGED <<prevWait, msgCbs>>

\* handleWatchError up to the select: a cancelled or invalid-argument error is
\* returned, any other arms time.After(c.backoff.Duration())
HandleWatchError(w) ==
    /\ pc[w] = "handle"
    /\ IF StatusCode(err[w]) \in {"Canceled", "InvalidArgument"}
       THEN /\ ret' = [ret EXCEPT ![w] = err[w]]
            /\ pc' = [pc EXCEPT ![w] = "done"]
            /\ UNCHANGED <<waitDur, elapsed, backoff, own>>
       ELSE /\ waitDur' = [waitDur EXCEPT ![w] = BackoffDuration(backoff)]
            /\ backoff' = BackoffAdvance(backoff)
            /\ own' = [own EXCEPT ![w] = BackoffAdvance(@)]
            /\ elapsed' = [elapsed EXCEPT ![w] = 0]
            /\ pc' = [pc EXCEPT ![w] = "wait"]
            /\ UNCHANGED ret
    /\ UNCHANGED <<err, cancelled, live, resp, lastCb, errCbs, badOnStream,
                   ctxDoneAtSelect, lateOpen,
                   fetchVars>>
    /\ UNCHANGED <<prevWait, msgCbs>>

\* time passes while the watch is blocked in the select
Tick(w) ==
    /\ pc[w] = "wait"
    /\ elapsed[w] < waitDur[w]
    /\ elapsed' = [elapsed EXCEPT ![w] = @ + 1]
    /\ UNCHANGED <<pc, err, cancelled, live, resp, lastCb, ret, waitDur, backoff,
                   own, errCbs, badOnStream, ctxDoneAtSelect, lateOpen,
                   fetchVars>>
    /\ UNCHANGED <<prevWait, msgCbs>>

\* case <-time.After(backoff): return nil; err is nil and Watch* loops
SelectTimer(w) ==
    /\ pc[w] = "wait"
    /\ elapsed[w] = waitDur[w]
    /\ err' = [err EXCEPT ![w] = ""]
    /\ waitDur' = [waitDur EXCEPT ![w] = 0]
    /\ elapsed' = [elapsed EXCEPT ![w] = 0]
    /\ ctxDoneAtSelect' = [ctxDoneAtSelect EXCEPT ![w] = cancelled[w]]
    /\ pc' = [pc EXCEPT ![w] = "call"]
    /\ UNCHANGED <<cancelled, live, resp, lastCb, ret, backoff, own, errCbs,
                   badOnStream, lateOpen, fetchVars>>
    /\ prevWait' = [prevWait EXCEPT ![w] = waitDur[w]]
    /\ UNCHANGED msgCbs

\* a plausible bug: the wait looks at ctx.Done() only once the timer has fired
SelectDone_AfterTimer(w) ==
    /\ pc[w] = "wait"
    /\ cancelled[w]
    /\ elapsed[w] = waitDur[w]
    /\ ret' = [ret EXCEPT ![w] = CtxErr]
    /\ pc' = [pc EXCEPT ![w] = "done"]
    /\ UNCHANGED <<err, cancelled, live, resp, lastCb, waitDur, elapsed,
                   backoff, own, errCbs, badOnStream, ctxDoneAtSelect, lateOpen,
                   fetchVars>>
    /\ UNCHANGED <<prevWait, msgCbs>>

\* case <-ctx.Done(): return ctx.Err(), and Watch* returns it
SelectDone(w) ==
    /\ pc[w] = "wait"
    /\ cancelled[w]
    /\ ret' = [ret EXCEPT ![w] = CtxErr]
    /\ pc' = [pc EXCEPT ![w] = "done"]
    /\ UNCHANGED <<err, cancelled, live, resp, lastCb, waitDur, elapsed,
                   backoff, own, errCbs, badOnStream, ctxDoneAtSelect, lateOpen,
                   fetchVars>>
    /\ UNCHANGED <<prevWait, msgCbs>>

\* the caller cancels the ctx it gave to Watch*
Cancel(w) ==
    /\ ~cancelled[w]
    /\ pc[w] # "done"
    /\ cancelled' = [cancelled EXCEPT ![w] = TRUE]
    /\ UNCHANGED <<pc, err, live, resp, lastCb, ret, waitDur, elapsed, backoff,
                   own, errCbs, badOnStream, ctxDoneAtSelect, lateOpen,
                   fetchVars>>
    /\ UNCHANGED <<prevWait, msgCbs>>

----------------------------------------------------------------------------
(* Specifications *)

Init == WatchInit /\ FetchInit

Next ==
    \E w \in Watches :
        \/ OpenStream(w)
        \/ RecvMessage(w)
        \/ RecvError(w)
        \/ Deliver(w)
        \/ WatchErrorCb(w)
        \/ HandleWatchError(w)
        \/ Tick(w)
        \/ SelectTimer(w)
        \/ SelectDone(w)
        \/ Cancel(w)

\* the watches of one client
Spec == Init /\ [][Next]_vars

\* a watch that was not started
Untouched(v) == pc[v] = "call" /\ lastCb[v] = NoCb /\ ~cancelled[v]
\* watch w is the only one that runs on the client
Alone(w) == \A v \in Watches \ {w} : Untouched(v)

\* the steps a watch takes by itself: the transport answers an open, and
\* fails the Recv of a call whose ctx is done; callbacks return; the select
\* takes a case that is ready.  The passing of time (Tick) and the arrival of
\* a message are not among them.
Progress(w) ==
    /\ Alone(w)
    /\ \/ OpenStream(w)
       \/ (cancelled[w] /\ RecvError(w))
       \/ Deliver(w)
       \/ WatchErrorCb(w)
       \/ HandleWatchError(w)
       \/ SelectTimer(w)
       \/ SelectDone(w)

LiveNext ==
    \E w \in Watches :
        \/ Alone(w) /\ OpenStream(w)
        \/ Alone(w) /\ RecvMessage(w)
        \/ Alone(w) /\ RecvError(w)
        \/ Alone(w) /\ Deliver(w)
        \/ Alone(w) /\ WatchErrorCb(w)
        \/ Alone(w) /\ HandleWatchError(w)
        \/ Alone(w) /\ Tick(w)
        \/ Alone(w) /\ SelectTimer(w)
        \/ Alone(w) /\ SelectDone(w)
        \/ Alone(w) /\ Cancel(w)

\* a client on which one watch runs, either of the two, taking the steps it
\* can take
LiveSpec == Init /\ [][LiveNext]_vars /\ \A w \in Watches : WF_vars(Progress(w))

FetchNext ==
    \/ \E op \in FetchOps : FetchCall(op)
    \/ FetchOpen
    \/ FetchRecv
    \/ \E t \in Tokens, a \in Audiences : ValidateCall(t, a)
    \/ ValidateReply
    \/ \E a \in Audiences : FetchJWTSVIDCall(a)
    \/ FetchJWTSVIDReply
    \/ FetchReturn

\* the one-shot fetches and unary calls of one client
FetchSpec == Init /\ [][FetchNext]_vars

\* the messages of the agent to the fetches of a client that also watches:
\* no entry, a well-formed entry or an undecodable one; no bundle, a
\* well-formed bundle or an undecodable one
ClientResponses(op) ==
    IF op = "FetchJWTBundles"
    THEN {m \in JWTResponses : DOMAIN m.bundles \subseteq {"td1"}}
    ELSE {m \in X509Responses :
            /\ Len(m.svids) <= 1
            /\ DOMAIN m.fed = {}
            /\ \A i \in DOMAIN m.svids :
                  /\ m.svids[i].x509Svid \in {"leaf1", "garbage"}
                  /\ m.svids[i].spiffeId = "spiffe://td1/a"
                  /\ m.svids[i].bundle = "ca1"}

ClientNext ==
    \/ LiveNext
    \/ \E op \in FetchOps : FetchCall(op)
    \/ FetchOpen
    \/ FetchRecvIn(ClientResponses(fOp))
    \/ \E t \in Tokens, a \in Audiences : ValidateCall(t, a)
    \/ ValidateReply
    \/ \E a \in Audiences : FetchJWTSVIDCall(a)
    \/ FetchJWTSVIDReply
    \/ FetchReturn

\* a client on which one watch runs while one-shot operations are called
ClientSpec == Init /\ [][ClientNext]_vars

----------------------------------------------------------------------------
(* Properties of the watch sessions *)

IsTerminal(e) == StatusCode(e) \in {"Canceled", "InvalidArgument"}
IsTransient(e) == e \in TransportErrs /\ ~IsTerminal(e)

\* the callbacks the translation of message rsp of watch w may lead to
CallbacksFor(w, rsp) ==
    { LET r == WatchTranslate(w, rsp, ord)
      IN IF r.kind = "ok" THEN UpdateCb(r.val) ELSE ErrorCb(r.err) :
      ord \in Orders(DOMAIN WatchMapOf(w, rsp)) }

\* C1: a received message whose translation fails is reported to the
\* observer's error callback and leaves the watch receiving on the same
\* stream (the call stays live, no error is returned from the receive loop);
\* a message that translates is reported to the update callback, also when an
\* earlier message of the stream failed to translate.
C1_MalformedMessageKeepsStream ==
    [][\A w \in Watches :
        (pc[w] = "deliver" /\ pc'[w] # "deliver") =>
            /\ pc'[w] = "recv"
            /\ live'[w] = live[w] /\ live[w] = 1
            /\ err'[w] = err[w]
            /\ lastCb'[w] \in CallbacksFor(w, resp[w])
            /\ (lastCb'[w].kind = "error" => badOnStream'[w])
            /\ (lastCb'[w].kind = "update" => badOnStream'[w] = badOnStream[w])]_vars

\* C1 witness: on both watches an update was delivered on a stream on which an
\* earlier message had failed to translate.
C1_Witness ==
    \A w \in Watches :
        pc[w] = "recv" /\ badOnStream[w] /\ lastCb[w].kind = "update" /\ live[w] = 1

\* C2 as stated: a transient failure is always followed by a fresh stream
\* open, so a watch never ends with a transient failure as its last one.
C2_TransientAlwaysReopens ==
    \A w \in Watches : pc[w] = "done" => IsTerminal(err[w])

\* C2 as amended: a failure of the open or of a receive takes the same path;
\* a transient one is delivered to the error callback once, then the watch
\* waits the backoff duration, and it leaves the wait either for a fresh stream
\* open once the whole duration has elapsed, or, with the caller's ctx done, by
\* returning ctx.Err() without opening a stream.
C2_TransientRetryOrder ==
    [][\A w \in Watches :
        /\ (pc[w] \in {"call", "recv"} /\ err'[w] # err[w]) =>
              /\ pc'[w] = "errcb" /\ err'[w] \in TransportErrs /\ errCbs'[w] = 0
        /\ (pc[w] = "errcb" /\ pc'[w] # "errcb") =>
              /\ pc'[w] = "handle"
              /\ lastCb'[w] = ErrorCb(err[w]) /\ errCbs'[w] = 1
        /\ (pc[w] = "handle" /\ pc'[w] # "handle" /\ IsTransient(err[w])) =>
              /\ pc'[w] = "wait" /\ errCbs[w] = 1
              /\ waitDur'[w] = BackoffDuration(backoff) /\ elapsed'[w] = 0
              /\ waitDur'[w] >= BackoffMin
        /\ (pc[w] = "wait" /\ pc'[w] # "wait") =>
              \/ /\ pc'[w] = "call" /\ elapsed[w] = waitDur[w]
                 /\ live'[w] = 0
              \/ /\ pc'[w] = "done" /\ cancelled[w] /\ ret'[w] = CtxErr
        /\ (pc[w] = "call" /\ pc'[w] # "call") =>
              \/ pc'[w] = "recv" /\ live'[w] = 1
              \/ pc'[w] = "errcb" /\ live'[w] = 0]_vars

\* C2 witness: both watches are receiving on a stream opened after a
\* transient failure was delivered to the error callback and the wait ended.
C2_Witness ==
    \A w \in Watches :
        pc[w] = "recv" /\ lastCb[w] = ErrorCb("Unavailable") /\ err[w] = ""
            /\ ~cancelled[w]

\* C3: a failure of the open or of a receive that is classified cancelled or
\* invalid-argument ends the watch: handleWatchError returns that failure,
\* takes no backoff duration and arms no wait, and a watch that has returned
\* opens no stream.
C3_TerminalFailureEndsWatch ==
    [][\A w \in Watches :
        /\ (pc[w] = "handle" /\ pc'[w] # "handle" /\ IsTerminal(err[w])) =>
              /\ pc'[w] = "done" /\ ret'[w] = err[w]
              /\ backoff' = backoff /\ waitDur'[w] = waitDur[w]
        /\ (pc'[w] = "wait" => IsTransient(err'[w]))
        /\ (pc[w] = "done" => pc'[w] = "done" /\ live'[w] = 0 /\ ret'[w] = ret[w])]_vars

\* C3 witness: one watch has ended on an invalid-argument failure and the
\* other on a cancelled one.
C3_Witness ==
    /\ pc["x509"] = "done" /\ ret["x509"] = "InvalidArgument"
    /\ pc["jwt"] = "done" /\ ret["jwt"] = "Canceled"

\* C4 as stated: once the caller's ctx is done at a suspension point of the
\* watch, the watch invokes no further stream open.
C4_NoOpenAfterCancel ==
    \A w \in Watches : ~lateOpen[w]

----------------------------------------------------------------------------
(* Properties of the translator, on the one-shot fetches and the X.509 watch *)

\* a fetch has returned what it made of a message it received
FetchGot(op) == fPc = "returned" /\ fOp = op /\ "svids" \in DOMAIN fResp

\* every entry and every federated bundle of the message decodes
AllDecodable(rsp) ==
    /\ \A i \in DOMAIN rsp.svids :
          /\ ParseRaw(rsp.svids[i].x509Svid, rsp.svids[i].x509SvidKey).kind = "ok"
          /\ parseX509Bundle(rsp.svids[i].spiffeId, rsp.svids[i].bundle).kind = "ok"
    /\ \A k \in DOMAIN rsp.fed : parseX509Bundle(k, rsp.fed[k]).kind = "ok"

\* the documents of the entries of a message, in message order
DocsOf(rsp) ==
    [i \in 1..Len(rsp.svids) |->
        ParseRaw(rsp.svids[i].x509Svid, rsp.svids[i].x509SvidKey).val]

\* the bundles of the entries and of the federated bundles of a message
BundlesOf(rsp) ==
    {parseX509Bundle(rsp.svids[i].spiffeId, rsp.svids[i].bundle).val :
        i \in DOMAIN rsp.svids}
    \cup {parseX509Bundle(k, rsp.fed[k]).val : k \in DOMAIN rsp.fed}

\* C6 as stated: a message with no identity entry gives an error outcome in
\* first-only mode (FetchX509SVID) and in all mode (FetchX509SVIDs,
\* FetchX509Context).
C6_EmptyResponseIsError ==
    \A op \in {"FetchX509SVID", "FetchX509SVIDs", "FetchX509Context"} :
        (FetchGot(op) /\ Len(fResp.svids) = 0) => fResult.kind = "err"

\* C7 as stated: for a message of N >= 1 entries and F federated bundles, all
\* decodable, the context has the N documents in message order and a bundle
\* set of exactly N + F bundles.
C7_ContextHasNPlusFBundles ==
    (FetchGot("FetchX509Context") /\ Len(fResp.svids) >= 1 /\ AllDecodable(fResp)) =>
        /\ fResult.kind = "ok"
        /\ fResult.val.SVIDs = DocsOf(fResp)
        /\ Cardinality(DOMAIN fResult.val.Bundles)
              = Len(fResp.svids) + Cardinality(DOMAIN fResp.fed)

\* C7 as amended: for such a message the context has the N documents in
\* message order and a bundle set with one bundle for each distinct trust
\* domain among the entries and the federated bundles (N + F bundles when the
\* trust domains all differ, fewer otherwise), each of them parsed from an
\* entry or a federated bundle of that message.
C7_ContextHasOneBundlePerTrustDomain ==
    (FetchGot("FetchX509Context") /\ Len(fResp.svids) >= 1 /\ AllDecodable(fResp)) =>
        /\ fResult.kind = "ok"
        /\ Len(fResult.val.SVIDs) = Len(fResp.svids)
        /\ fResult.val.SVIDs = DocsOf(fResp)
        /\ DOMAIN fResult.val.Bundles = {b.td : b \in BundlesOf(fResp)}
        /\ Cardinality(DOMAIN fResult.val.Bundles)
              <= Len(fResp.svids) + Cardinality(DOMAIN fResp.fed)
        /\ \A td \in DOMAIN fResult.val.Bundles :
              /\ fResult.val.Bundles[td] \in BundlesOf(fResp)
              /\ fResult.val.Bundles[td].td = td

\* C7 witness: a context of two documents from a message of two entries and
\* two federated bundles, one of a trust domain an entry has too.
C7_Witness ==
    /\ FetchGot("FetchX509Context") /\ fResult.kind = "ok"
    /\ Len(fResp.svids) = 2 /\ Cardinality(DOMAIN fResp.fed) = 2
    /\ Len(fResult.val.SVIDs) = 2
    /\ Cardinality(DOMAIN fResult.val.Bundles) = 3

\* both halves of a message translate
BothHalvesOk(rsp) ==
    /\ parseX509SVIDs(rsp, FALSE).kind = "ok"
    /\ \A ord \in Orders(DOMAIN rsp.fed) : parseX509Bundles(rsp, ord).kind = "ok"

\* C8: the update callback of the X.509 watch is called only in the step that
\* translates a received message, and only with the documents and the bundles
\* both translated from that message; when either half fails, that step calls
\* the error callback.
C8_UpdateIsOneWholeMessage ==
    [][/\ (pc["x509"] = "deliver" /\ pc'["x509"] # "deliver") =>
            IF BothHalvesOk(resp["x509"])
            THEN /\ lastCb'["x509"].kind = "update"
                 /\ lastCb'["x509"].val.SVIDs = parseX509SVIDs(resp["x509"], FALSE).val
                 /\ \E ord \in Orders(DOMAIN resp["x509"].fed) :
                       lastCb'["x509"].val.Bundles
                           = parseX509Bundles(resp["x509"], ord).val
            ELSE lastCb'["x509"].kind = "error"
       /\ (pc["x509"] # "deliver" /\ lastCb'["x509"].kind = "update") =>
            lastCb'["x509"] = lastCb["x509"]]_vars

\* C8 witness: an update with one document and two bundles (the entry's and a
\* federated one) was delivered on a stream on which a message had failed.
C8_Witness ==
    /\ lastCb["x509"].kind = "update" /\ badOnStream["x509"]
    /\ Len(lastCb["x509"].val.SVIDs) = 1
    /\ Cardinality(DOMAIN lastCb["x509"].val.Bundles) = 2

\* C9: for a message of two or more entries FetchX509SVID returns the outcome
\* of parsing the first entry alone: its document when it decodes, its error
\* otherwise, whatever the other entries hold.
C9_FirstOnlyReturnsFirstEntry ==
    (FetchGot("FetchX509SVID") /\ Len(fResp.svids) >= 2) =>
        LET first == ParseRaw(fResp.svids[1].x509Svid, fResp.svids[1].x509SvidKey)
        IN IF first.kind = "ok"
           THEN fResult.kind = "ok" /\ fResult.val = first.val
           ELSE fResult.kind = "err" /\ fResult.err = first.err

\* C9 witness: FetchX509SVID returned the first entry's document although
\* the second entry does not decode.
C9_Witness ==
    /\ FetchGot("FetchX509SVID") /\ Len(fResp.svids) = 2
    /\ fResp.svids[2].x509Svid = "garbage"
    /\ fResult.kind = "ok" /\ fResult.val.cert = fResp.svids[1].x509Svid

\* C10 as stated: the wait a watch is about to take is the one a backoff
\* advanced by its own transient failures and reset by its own messages gives.
C10_BackoffPrivatePerWatch ==
    \A w \in Watches :
        (pc[w] = "handle" /\ IsTransient(err[w])) =>
            BackoffDuration(backoff) = BackoffDuration(own[w])

----------------------------------------------------------------------------
(* Properties of the backoff, the callbacks and the streams of a watch *)

\* C11 as stated: the waits a watch takes for consecutive transient failures,
\* with no message received in between, do not decrease and do not exceed
\* the maximum, and the first wait after the watch received a message (or
\* started) is the minimum.
C11_WaitsGrowFromMinimum ==
    \A w \in Watches : pc[w] = "wait" =>
        /\ waitDur[w] >= prevWait[w]
        /\ waitDur[w] <= BackoffMax
        /\ (prevWait[w] = 0 => waitDur[w] = BackoffMin)

\* C12 as stated: a watch returns only an error, and only after the caller's
\* ctx was cancelled or a failure classified invalid-argument occurred.
C12_EndsOnlyOnCancelOrInvalid ==
    \A w \in Watches : pc[w] = "done" =>
        /\ ret[w] # ""
        /\ (cancelled[w] \/ ret[w] = "InvalidArgument")

\* C12 as amended: a watch returns only an error, never success, and only in
\* two ways: from handleWatchError with a failure of the open or of a receive
\* whose code is cancelled (after the caller's cancel, or reported by the
\* transport with the caller's ctx still live) or invalid-argument, or from
\* the backoff wait with ctx.Err() after the caller's cancel.  A transient
\* failure, however many came before it, always leads to the wait, and a wait
\* that ends with the ctx live always leads to another open.
C12_EndsOnlyOnTerminalFailure ==
    [][\A w \in Watches :
        /\ (pc[w] # "done" /\ pc'[w] = "done") =>
              /\ ret'[w] # ""
              /\ \/ /\ pc[w] = "handle" /\ ret'[w] = err[w]
                    /\ err[w] \in {"Canceled", "InvalidArgument"}
                 \/ /\ pc[w] = "wait" /\ cancelled[w] /\ ret'[w] = CtxErr
        /\ (pc[w] = "handle" /\ pc'[w] # "handle" /\ IsTransient(err[w])) =>
              pc'[w] = "wait" /\ ret'[w] = ""
        /\ (pc[w] = "wait" /\ pc'[w] # "wait" /\ ~cancelled[w]) =>
              pc'[w] = "call" /\ ret'[w] = ""
        /\ (pc[w] = "call" /\ pc'[w] # "call") =>
              pc'[w] \in {"recv", "errcb"} /\ ret'[w] = ""
        /\ (pc[w] \in {"recv", "deliver", "errcb"} => ret'[w] = "")]_vars

\* C12 witness: a watch whose ctx is live opens a stream again after a wait
\* of the maximum duration, and the other watch has ended on a cancelled
\* failure that its transport reported with the caller's ctx still live.
C12_Witness ==
    /\ pc["x509"] = "recv" /\ prevWait["x509"] = BackoffMax
    /\ ~cancelled["x509"] /\ backoff = BackoffMax
    /\ pc["jwt"] = "done" /\ ret["jwt"] = "Canceled" /\ ~cancelled["jwt"]

\* the translation of message rsp of watch w fails
TranslationFails(w, rsp) ==
    \A ord \in Orders(DOMAIN WatchMapOf(w, rsp)) :
        WatchTranslate(w, rsp, ord).kind # "ok"

\* C14 as stated: a received message whose translation fails leaves the
\* backoff unchanged.
C14_MalformedMessageKeepsBackoff ==
    [][\A w \in Watches :
        (pc[w] = "recv" /\ pc'[w] = "deliver" /\ TranslationFails(w, resp'[w])) =>
            backoff' = backoff]_vars

\* C14 as amended: the backoff is reset when a message is received, before
\* the message is translated and whether or not it translates, so a
\* malformed message returns the backoff to the minimum too; the translation
\* and the callback that follow leave the backoff as it is.
C14_EveryMessageResetsBackoff ==
    [][\A w \in Watches :
        /\ (pc[w] = "recv" /\ pc'[w] = "deliver") =>
              /\ backoff' = BackoffMin
              /\ BackoffDuration(backoff') = BackoffMin
        /\ (pc[w] = "deliver" /\ pc'[w] # "deliver") => backoff' = backoff]_vars

\* C14 witness: the X.509 watch, alone to have run, has received a malformed
\* message after a transient failure and a wait, and the backoff is at the
\* minimum.
C14_Witness ==
    /\ pc["x509"] = "deliver" /\ TranslationFails("x509", resp["x509"])
    /\ lastCb["x509"] = ErrorCb("Unavailable")
    /\ backoff = BackoffMin
    /\ pc["jwt"] = "call" /\ lastCb["jwt"] = NoCb

\* C15: within a watch every received message gets exactly one observer
\* callback, an update with the translated value if it translates and an
\* error otherwise; the watch holds one message at a time and makes its
\* callback before it receives the next, so callbacks come in the order of
\* the messages and never overlap; outside the receive loop only the error
\* callback of Watch* calls the observer.
C15_OneCallbackPerMessageInOrder ==
    [][\A w \in Watches :
        /\ (pc[w] = "recv" /\ pc'[w] = "deliver") =>
              /\ resp[w] = NoResp /\ resp'[w] \in WatchResponses(w)
              /\ msgCbs'[w] = 0 /\ lastCb'[w] = lastCb[w]
        /\ (pc[w] = "deliver") =>
              /\ resp[w] # NoResp /\ msgCbs[w] = 0
              /\ pc'[w] \in {"deliver", "recv"}
        /\ (pc[w] = "deliver" /\ pc'[w] # "deliver") =>
              /\ msgCbs'[w] = 1 /\ resp'[w] = NoResp
              /\ lastCb'[w] \in CallbacksFor(w, resp[w])
              /\ (lastCb'[w].kind = "error" <=> TranslationFails(w, resp[w]))
        /\ (resp'[w] # resp[w]) => pc[w] \in {"recv", "deliver"}
        /\ (msgCbs'[w] # msgCbs[w]) => pc[w] \in {"recv", "deliver"}
        /\ (lastCb'[w] # lastCb[w]) => pc[w] \in {"deliver", "errcb"}]_vars

\* C15 witness: the X.509 watch has made the update callback for the second
\* message of its stream, after the error callback for the first, and the
\* JWT watch holds a second message whose callback is still to be made.
C15_Witness ==
    /\ pc["x509"] = "recv" /\ msgCbs["x509"] = 1 /\ badOnStream["x509"]
    /\ lastCb["x509"].kind = "update" /\ resp["x509"] = NoResp
    /\ pc["jwt"] = "deliver" /\ msgCbs["jwt"] = 0 /\ badOnStream["jwt"]
    /\ lastCb["jwt"].kind = "error"

\* C16: the error callback is called exactly once for each failure.  A
\* failure of the open or of a receive has had no callback when the loop of
\* Watch* gets it, gets exactly one there, with that failure, before
\* handleWatchError, and none after; a message whose translation fails gets
\* exactly one error callback in the receive loop and does not pass through
\* the callback of Watch*.
C16_ErrorCallbackOncePerFailure ==
    [][\A w \in Watches :
        /\ (pc[w] = "errcb") => errCbs[w] = 0 /\ err[w] \in TransportErrs
        /\ (pc[w] \in {"handle", "wait", "done"}) =>
              errCbs[w] = 1 /\ lastCb[w] = ErrorCb(err[w])
        /\ (err'[w] # err[w] /\ err'[w] # "") =>
              /\ pc[w] \in {"call", "recv"} /\ pc'[w] = "errcb"
              /\ errCbs'[w] = 0 /\ lastCb'[w] = lastCb[w]
        /\ (pc[w] = "errcb" /\ pc'[w] # "errcb") =>
              /\ pc'[w] = "handle" /\ errCbs'[w] = 1
              /\ lastCb'[w] = ErrorCb(err[w])
        /\ (pc[w] \in {"handle", "wait", "done"}) =>
              errCbs'[w] = errCbs[w] /\ lastCb'[w] = lastCb[w]
        /\ (pc[w] = "deliver" /\ pc'[w] # "deliver"
                /\ TranslationFails(w, resp[w])) =>
              /\ lastCb'[w].kind = "error" /\ msgCbs'[w] = 1
              /\ pc'[w] = "recv" /\ err'[w] = err[w]
              /\ errCbs'[w] = errCbs[w]]_vars

\* C16 witness: the X.509 watch is in the backoff wait after the one error
\* callback for a failed receive, and the JWT watch is back in its receive
\* after the one error callback for a malformed message.
C16_Witness ==
    /\ pc["x509"] = "wait" /\ errCbs["x509"] = 1
    /\ lastCb["x509"] = ErrorCb("Unavailable") /\ msgCbs["x509"] = 1
    /\ pc["jwt"] = "recv" /\ lastCb["jwt"].kind = "error"
    /\ msgCbs["jwt"] = 1 /\ errCbs["jwt"] = 0 /\ err["jwt"] = ""

\* C17: once the caller's ctx is cancelled the watch returns, wherever it
\* is: in Recv, in the backoff wait or between the two.  It holds with no
\* assumption that time passes or that the agent sends a message, so the
\* return needs neither the end of the backoff duration nor a further
\* message; it assumes that callbacks return.
C17_CancelledWatchReturns ==
    \A w \in Watches : cancelled[w] ~> (pc[w] = "done")

\* C17 witness: the watch was cancelled in the backoff wait, after a failed
\* receive on a stream that had carried a message, and has returned ctx.Err()
\* before the duration elapsed.
C17_Witness ==
    \E w \in Watches :
        /\ pc[w] = "done" /\ cancelled[w] /\ ret[w] = CtxErr
        /\ elapsed[w] < waitDur[w] /\ msgCbs[w] = 1

\* C20: a watch has at most one stream call that is not cancelled, and has
\* one exactly while it is in its receive loop (in Recv or handling a
\* message): the call is cancelled when the loop exits, so none is live at
\* the error callback, in handleWatchError, in the backoff wait, at the next
\* open, or once the watch has returned.
C20_AtMostOneLiveStream ==
    \A w \in Watches :
        /\ live[w] \in {0, 1}
        /\ (pc[w] \in {"recv", "deliver"} => live[w] = 1)
        /\ (pc[w] \in {"call", "errcb", "handle", "wait", "done"} => live[w] = 0)

\* C20 witness: the X.509 watch is in the backoff wait after a failed
\* receive on a stream that had carried a message, with no live call; the
\* JWT watch is in Recv on a stream it reopened after a wait, its only live
\* call.
C20_Witness ==
    /\ pc["x509"] = "wait" /\ live["x509"] = 0 /\ msgCbs["x509"] = 1
    /\ pc["jwt"] = "recv" /\ live["jwt"] = 1 /\ prevWait["jwt"] > 0

----------------------------------------------------------------------------
(* Properties of the one-shot operations *)

ValidateReturned == fPc = "returned" /\ fOp = "ValidateJWTSVID"

\* C13: ValidateJWTSVID returns the locally parsed token only if the agent
\* accepted the token, and then returns what jwtsvid.ParseInsecure made of
\* the token and the audience; when the agent rejects the token or the call
\* fails it returns the agent's error and no parsed token.
C13_ParsedOnlyIfAgentAccepted ==
    ValidateReturned =>
        /\ (fResult.kind = "ok" => fResp.reply = "accepted")
        /\ IF fResp.reply = "accepted"
           THEN fResult = ParseInsecure(fResp.token, {fResp.audience})
           ELSE fResult = Err(fResp.reply)

\* C13 witness: the agent rejected a token that parses locally for the
\* audience asked, and ValidateJWTSVID returned the agent's error.
C13_Witness ==
    /\ ValidateReturned
    /\ fResp.reply = "InvalidArgument"
    /\ ParseInsecure(fResp.token, {fResp.audience}).kind = "ok"
    /\ fResult = Err("InvalidArgument")

\* C18: a one-shot fetch opens one stream and receives at most once on it,
\* exactly once when the open succeeded; it returns the failure of the open
\* without a receive, the failure of the receive, or what the translation
\* made of the one message, and nothing else; its call is live from entry to
\* return and cancelled at the return.
C18_FetchIsOneOpenOneReceive ==
    fOp \in FetchOps =>
        /\ fLive \in {0, 1} /\ fOpens \in {0, 1} /\ fRecvs \in {0, 1}
        /\ (fPc = "open" => fLive = 1 /\ fOpens = 0 /\ fRecvs = 0)
        /\ (fPc = "recv" => fLive = 1 /\ fOpens = 1 /\ fRecvs = 0)
        /\ (fPc = "returned" =>
              /\ fLive = 0 /\ fOpens = 1
              /\ \/ /\ fRecvs = 0 /\ fResp = NoResp
                    /\ fResult.kind = "err" /\ fResult.err \in TransportErrs
                 \/ /\ fRecvs = 1 /\ fResp = NoResp
                    /\ fResult.kind = "err" /\ fResult.err \in TransportErrs
                 \/ /\ fRecvs = 1 /\ fResp \in FetchResponses(fOp)
                    /\ \E ord \in Orders(DOMAIN MapOf(fOp, fResp)) :
                          fResult = FetchTranslate(fOp, fResp, ord))

\* C18 witness: FetchX509Context has returned the error of the translation
\* of the one message it received, after one open and one receive, its call
\* cancelled.
C18_Witness ==
    /\ fPc = "returned" /\ fOp = "FetchX509Context"
    /\ fResp \in X509Responses /\ fResult.kind = "err"
    /\ fOpens = 1 /\ fRecvs = 1 /\ fLive = 0

\* C19: no step of a one-shot fetch or of a validation changes the backoff,
\* whatever its outcome; handleWatchError leaves it unchanged for a
\* cancelled or invalid-argument failure and advances it for a transient
\* one; the only steps that change it are that advance and the reset a watch
\* makes when it receives a message.
C19_BackoffChangedOnlyByWatch ==
    [][/\ (fetchVars' # fetchVars => backoff' = backoff)
       /\ \A w \in Watches :
            /\ (pc[w] = "handle" /\ pc'[w] # "handle" /\ IsTerminal(err[w])) =>
                  backoff' = backoff
            /\ (pc[w] = "handle" /\ pc'[w] # "handle" /\ IsTransient(err[w])) =>
                  backoff' = BackoffAdvance(backoff)
       /\ (backoff' # backoff =>
              \E w \in Watches :
                  \/ /\ pc[w] = "handle" /\ pc'[w] = "wait" /\ IsTransient(err[w])
                     /\ backoff' = BackoffAdvance(backoff)
                  \/ /\ pc[w] = "recv" /\ pc'[w] = "deliver"
                     /\ backoff' = BackoffReset(backoff))]_vars

\* C19 witness: a fetch has returned a value and a watch has ended on a
\* cancelled failure of its stream, with the backoff still at the maximum
\* that the transient failures of that watch brought it to.
C19_Witness ==
    /\ fPc = "returned" /\ fOp \in FetchOps /\ fResult.kind = "ok"
    /\ backoff = BackoffMax
    /\ \E w \in Watches : pc[w] = "done" /\ ret[w] = "Canceled"

====
